---- MODULE Spec2Model ----
(***************************************************************************)
(* A model of the hybrid recommendation engine and of the vector store of  *)
(* the Learn-roadmap backend:                                              *)
(*   backend/app/core/vector_store.py          (class VectorStore)         *)
(*   backend/app/core/recommendation_engine.py (HybridRecommendationEngine)*)
(*                                                                         *)
(* Numbers.  The float components of a vector are kept as integers in      *)
(* tenths, rounded down: an embedding component 0.6 is 6, duration/1000 is *)
(* duration \div 100, rating/5 is rating \div 50 with the rating kept in    *)
(* hundredths (5.0 is 500).  A vector is kept by its direction (the        *)
(* integer tuple before the final L2 normalisation); cosine similarities   *)
(* are compared exactly by cross-multiplication.                           *)
(***************************************************************************)
EXTENDS Integers, Sequences, FiniteSets, TLC

VARIABLES
    index_type,      \* VectorStore.index_type
    index,           \* VectorStore.index: the FAISS index [is_trained, vecs]
    vectors,         \* VectorStore.vectors
    metadata,        \* VectorStore.metadata
    id_mapping,      \* VectorStore.id_mapping; slot i (0-based) is position i+1
    disk,            \* models/faiss_index.pkl
    hash_seed,       \* the interpreter's string hash seed (PYTHONHASHSEED)
    redis_client,    \* cache.redis_client: "None" or "connected"
    cache,           \* the keys the Redis server holds, with their values
    tfidf_vectorizer,  \* HybridRecommendationEngine.tfidf_vectorizer
    fitted,          \* what encoder, scaler and svd were last fitted on
    resource_features, \* HybridRecommendationEngine.resource_features
    models_disk,     \* models/recommendation_models.pkl
    user_resource_interactions,  \* the rows of the table of that name
    resources,       \* rating and rating_count of the rows of table resources
    running,         \* the rebuild and the search in progress in two threads:
                     \* the position and the locals of each
    last             \* the last operation, its arguments and its result

vsvars == <<index_type, index, vectors, metadata, id_mapping, disk>>

recvars == <<hash_seed, redis_client, cache, tfidf_vectorizer, fitted,
             resource_features, models_disk>>

dbvars == <<user_resource_interactions, resources>>

vars == <<index_type, index, vectors, metadata, id_mapping, disk,
          hash_seed, redis_client, cache, tfidf_vectorizer, fitted,
          resource_features, models_disk, user_resource_interactions,
          resources, running, last>>

None == "None"

----------------------------------------------------------------------------
(* Bounds of the model *)

\* longest corpus handed to add_resources / rebuild_index
MaxCorpus == 2

\* add_resources is not taken once the FAISS index holds this many vectors
MaxIndexVectors == 3

\* largest top_k of a search
MaxTopK == 2

(* Program constants *)

\* VectorStore.dimension as constructed in the model (default 384)
Dimension == 8

\* minimum number of vectors for which an IVF index is trained
MinTrainingSize == 256

----------------------------------------------------------------------------
(* Resources *)

\* a duration of so many minutes
Minutes(n) == [kind |-> "int", value |-> n]

\* Resource.duration_minutes is nullable: the duration of a resource that
\* has none
NoDuration == [kind |-> "null", value |-> 0]

Res(id, title, mt, diff, ls, dur, rating, rc, tags) ==
    [id |-> id, title |-> title, description |-> "", media_type |-> mt,
     difficulty |-> diff, learning_style |-> ls, duration_minutes |-> Minutes(dur),
     rating |-> rating, rating_count |-> rc, tags |-> tags]

ResourcePool ==
    { Res(1, "Python ", "video", "beginner", "visual", 30, 500, 10, <<"py">>),
      [Res(2, "java", "article", "advanced", "reading", 0, 300, 2, <<"jvm">>)
          EXCEPT !.duration_minutes = NoDuration],
      Res(3, "sql", "video", "intermediate", "visual", 60, 400, 250, <<"py", "db">>) }

RECURSIVE SeqsUpTo(_, _)
SeqsUpTo(S, n) ==
    IF n = 0 THEN { <<>> }
    ELSE LET shorter == SeqsUpTo(S, n - 1)
         IN  shorter \cup { Append(s, x) : s \in shorter, x \in S }

Range(s) == { s[i] : i \in DOMAIN s }

\* pd.DataFrame(rows), as iterrows and to_dict give the rows back: a column
\* of numbers holds a missing value as NaN, a column without any number
\* keeps it as None
DataFrame(rows) ==
    LET numbers == \E i \in DOMAIN rows : rows[i].duration_minutes.kind = "int"
        held(d) == IF d.kind # "null" THEN d
                   ELSE [kind |-> IF numbers THEN "nan" ELSE "none", value |-> 0]
    IN  [i \in DOMAIN rows |->
            [rows[i] EXCEPT !.duration_minutes = held(rows[i].duration_minutes)]]

\* the DataFrames handed to the store: ordered, without repeated rows
Corpora ==
    { DataFrame(c) : c \in { d \in SeqsUpTo(ResourcePool, MaxCorpus) :
                                Cardinality(Range(d)) = Len(d) } }

Queries == { "Python ", "java" }

\* filters=None, and filters={}
FiltersNone == [none |-> TRUE]

NoFilter == [k \in {} |-> TRUE]

FilterSet ==
    { FiltersNone, NoFilter,
      [media_type |-> "video"],
      [difficulty |-> "beginner"],
      [learning_style |-> "visual"],
      [min_duration |-> 45],
      [max_duration |-> 45],
      [min_rating |-> 400],
      [tags |-> <<"py">>],
      [difficulty |-> "", tags |-> <<"db">>] }

----------------------------------------------------------------------------
(* Embedding *)

\* text.lower().strip()
PreprocessText(text) ==
    CASE text = "Python " -> "python"
      [] OTHER -> text

RECURSIVE Join(_)
\* ' '.join(tags)
Join(tags) ==
    IF tags = <<>> THEN ""
    ELSE IF Len(tags) = 1 THEN tags[1]
    ELSE tags[1] \o " " \o Join(Tail(tags))

\* the md5 digest of a text as a unit vector of two components: a
\* deterministic table standing for hashlib.md5
Md5Unit(text) ==
    CASE text = "python"            -> <<6, 8>>
      [] text = "java"              -> <<8, 6>>
      [] text = ""                  -> <<10, 0>>
      [] text = "python  py"        -> <<8, 6>>
      [] text = "java  jvm"         -> <<6, 8>>
      [] text = "sql  py db"        -> <<0, 10>>
      [] text = "video beginner visual"      -> <<6, 8>>
      [] text = "article advanced reading"   -> <<10, 0>>
      [] text = "video intermediate visual"  -> <<0, 10>>
      [] OTHER                      -> <<10, 0>>

Pad(v, n) == [i \in 1..n |-> IF i <= Len(v) THEN v[i] ELSE 0]

\* _create_text_embedding: hash, pad or truncate to the dimension, normalise
CreateTextEmbedding(text) == Pad(Md5Unit(text), Dimension)

Min(a, b) == IF a < b THEN a ELSE b

\* _create_resource_vector: the two text embeddings already have the full
\* dimension, so the cut to the dimension keeps the first of them alone.  A
\* NaN duration is carried as 0: it lies in the part that is cut off.  A
\* None duration makes the division raise, and the handler returns zeros.
CreateResourceVector(r) ==
    LET title       == PreprocessText(r.title)
        description == PreprocessText(r.description)
        base        == title \o " " \o description
        combined    == IF r.tags # <<>> THEN base \o " " \o Join(r.tags) ELSE base
        text_emb    == CreateTextEmbedding(combined)
        cat_emb     == CreateTextEmbedding(r.media_type \o " " \o r.difficulty
                                              \o " " \o r.learning_style)
        numerical   == << r.duration_minutes.value \div 100, r.rating \div 50,
                         Min(r.rating_count \div 100, 10) >>
        all         == text_emb \o cat_emb \o numerical
    IN  IF r.duration_minutes.kind = "none"
        THEN [i \in 1..Dimension |-> 0]
        ELSE IF Len(all) > Dimension THEN SubSeq(all, 1, Dimension)
        ELSE Pad(all, Dimension)

RECURSIVE SumSeq(_)
SumSeq(s) == IF s = <<>> THEN 0 ELSE s[1] + SumSeq(Tail(s))

Dot(a, b) == SumSeq([i \in 1..Len(a) |-> a[i] * b[i]])

\* the inner product of the normalised query with the normalised vector v, as
\* the exact fraction dot / sqrt(nsq) (all components are non-negative)
Score(qv, v) ==
    LET n == Dot(v, v) IN [dot |-> Dot(qv, v), nsq |-> IF n = 0 THEN 1 ELSE n]

ScoreLess(a, b) == a.dot * a.dot * b.nsq < b.dot * b.dot * a.nsq

----------------------------------------------------------------------------
(* The FAISS index *)

\* _initialize_index: an IVF index starts untrained, a flat index needs no
\* training
InitializeIndex(type) ==
    [is_trained |-> (type # "IndexIVFFlat"), vecs |-> <<>>]

\* index.ntotal
NTotal(idx) == Len(idx.vecs)

\* slot s (0-based) is at least as near to qv as slot t; equal scores keep
\* the lower slot first
Nearer(idx, qv, s, t) ==
    LET a == Score(qv, idx.vecs[s + 1])
        b == Score(qv, idx.vecs[t + 1])
    IN  ScoreLess(b, a) \/ (~ScoreLess(a, b) /\ s <= t)

RECURSIVE NearestFrom(_, _, _, _)
NearestFrom(idx, qv, slots, k) ==
    IF k = 0 \/ slots = {} THEN <<>>
    ELSE LET best == CHOOSE s \in slots : \A t \in slots : Nearer(idx, qv, s, t)
         IN  <<best>> \o NearestFrom(idx, qv, slots \ {best}, k - 1)

\* index.search(query_vector, k): the k nearest slots by inner product, in
\* descending order of similarity
IndexSearch(idx, qv, k) == NearestFrom(idx, qv, 0..(NTotal(idx) - 1), k)

----------------------------------------------------------------------------
(* VectorStore *)

Has(f, k) == k \in DOMAIN f

\* a < b on Python numbers: every comparison with NaN is False
PyLess(a, b) == a.kind = "int" /\ b.kind = "int" /\ a.value < b.value

\* _matches_filters; the comparison of a None duration raises and the
\* handler returns False
MatchesFilters(rd, f) ==
    IF Has(f, "none") \/ DOMAIN f = {} THEN TRUE
    ELSE /\ ~(Has(f, "media_type") /\ f.media_type # ""
                /\ rd.media_type # f.media_type)
         /\ ~(Has(f, "difficulty") /\ f.difficulty # ""
                /\ rd.difficulty # f.difficulty)
         /\ ~(Has(f, "learning_style") /\ f.learning_style # ""
                /\ rd.learning_style # f.learning_style)
         /\ ~((Has(f, "min_duration") \/ Has(f, "max_duration"))
                /\ rd.duration_minutes.kind = "none")
         /\ ~(Has(f, "min_duration")
                /\ PyLess(rd.duration_minutes, Minutes(f.min_duration)))
         /\ ~(Has(f, "max_duration")
                /\ PyLess(Minutes(f.max_duration), rd.duration_minutes))
         /\ ~(Has(f, "min_rating") /\ rd.rating < f.min_rating)
         /\ ~(Has(f, "tags") /\ f.tags # <<>>
                /\ Range(rd.tags) \cap Range(f.tags) = {})

\* one formatted search result: the metadata of the slot with its score
Hit(md, idx, qv, slot, rank) ==
    [resource |-> md[slot + 1], slot |-> slot,
     similarity_score |-> Score(qv, idx.vecs[slot + 1]), search_rank |-> rank]

RECURSIVE FormatResults(_, _, _, _, _, _)
\* the loop of search_similar over the retrieved slots
FormatResults(md, idx, qv, f, near, results) ==
    IF near = <<>> THEN results
    ELSE LET slot == Head(near)
             keep == /\ slot # -1
                     /\ slot < Len(md)
                     /\ MatchesFilters(md[slot + 1], f)
             next == IF keep
                     THEN Append(results, Hit(md, idx, qv, slot, Len(results) + 1))
                     ELSE results
         IN  FormatResults(md, idx, qv, f, Tail(near), next)

\* the first n entries of s
Take(s, n) == SubSeq(s, 1, Min(n, Len(s)))

\* search_similar, on a given index and metadata
SearchIn(idx, md, query_text, top_k, f) ==
    LET qv == CreateTextEmbedding(PreprocessText(query_text))
    IN  IF NTotal(idx) = 0 THEN <<>>
        ELSE Take(FormatResults(md, idx, qv, f,
                                IndexSearch(idx, qv, Min(top_k, NTotal(idx))),
                                <<>>),
                  top_k)

\* the id_mapping after the loop of add_resources over corpus c
MapIds(idm, c) ==
    [i \in 1..(IF Len(idm) > Len(c) THEN Len(idm) ELSE Len(c)) |->
        IF i <= Len(c) THEN c[i].id ELSE idm[i]]

\* the index after lines 178-185 of add_resources; ok is FALSE when
\* index.add raised (FAISS refuses to add to an untrained index)
IndexAdd(idx, vecs) ==
    IF Len(vecs) = 0 THEN [index |-> idx, ok |-> TRUE]
    ELSE LET trained == idx.is_trained \/ Len(vecs) >= MinTrainingSize
         IN  IF trained
             THEN [index |-> [is_trained |-> TRUE, vecs |-> idx.vecs \o vecs],
                   ok |-> TRUE]
             ELSE [index |-> idx, ok |-> FALSE]

\* _save_index
SavedBlob(idx, md, idm) ==
    [index |-> idx, metadata |-> md, id_mapping |-> idm,
     dimension |-> Dimension, index_type |-> index_type]

\* the body of add_resources, starting from index idx and id_mapping idm
AddBody(idx, idm, c, op) ==
    LET vecs  == [i \in 1..Len(c) |-> CreateResourceVector(c[i])]
        added == IndexAdd(idx, vecs)
        idm2  == MapIds(idm, c)
    IN  /\ vectors' = [is_none |-> FALSE, rows |-> vecs]
        /\ metadata' = c
        /\ id_mapping' = idm2
        /\ index' = added.index
        /\ disk' = IF Len(c) > 0 /\ added.ok
                   THEN SavedBlob(added.index, c, idm2)
                   ELSE disk
        /\ last' = [op |-> op, corpus |-> c, failed |-> ~added.ok,
                    repeated |-> (last.prev = <<op, c>>), prev |-> <<op, c>>]
        /\ UNCHANGED <<recvars, dbvars, running>>

\* the caller is between two calls
Idle == last.op = "idle"

\* the caller takes the result of the call it made
Return ==
    /\ ~Idle
    /\ last' = [op |-> "idle", prev |-> last.prev]
    /\ UNCHANGED <<vsvars, recvars, dbvars, running>>

\* add_resources(resources_df)
AddResources(c) ==
    /\ Idle
    /\ NTotal(index) + Len(c) <= MaxIndexVectors
    /\ AddBody(index, id_mapping, c, "add_resources")
    /\ UNCHANGED index_type

\* rebuild_index that keeps the index and the id_mapping it finds
RebuildIndex_NoReset(c) ==
    /\ Idle
    /\ AddBody(index, id_mapping, c, "rebuild_index")
    /\ UNCHANGED index_type

\* rebuild_index(resources_df)
RebuildIndex(c) ==
    /\ Idle
    /\ AddBody(InitializeIndex(index_type), <<>>, c, "rebuild_index")
    /\ UNCHANGED index_type

\* search_similar(query_text, top_k, filters)
SearchSimilar(q, k, f) ==
    /\ Idle
    /\ last' = [op |-> "search_similar", prev |-> last.prev, query |-> q,
                top_k |-> k, filters |-> f,
                result |-> SearchIn(index, metadata, q, k, f)]
    /\ UNCHANGED <<vsvars, recvars, dbvars, running>>

\* update_resource(resource_id, resource_data)
UpdateResource(rid, r) ==
    /\ Idle
    /\ last' = [op |-> "update_resource", prev |-> last.prev, resource_id |-> rid]
    /\ UNCHANGED <<vsvars, recvars, dbvars, running>>

\* delete_resource that drops the metadata of the resource
DeleteResource_DropsMetadata(rid) ==
    /\ Idle
    /\ last' = [op |-> "delete_resource", prev |-> last.prev, resource_id |-> rid]
    /\ metadata' = SelectSeq(metadata, LAMBDA r : r.id # rid)
    /\ UNCHANGED <<index_type, index, vectors, id_mapping, disk, recvars, dbvars, running>>

\* delete_resource(resource_id)
DeleteResource(rid) ==
    /\ Idle
    /\ last' = [op |-> "delete_resource", prev |-> last.prev, resource_id |-> rid]
    /\ UNCHANGED <<vsvars, recvars, dbvars, running>>

\* get_stats()
GetStats ==
    /\ Idle
    /\ last' = [op |-> "get_stats", prev |-> last.prev,
                total_vectors |-> NTotal(index),
                metadata_count |-> Len(metadata)]
    /\ UNCHANGED <<vsvars, recvars, dbvars, running>>

\* VectorStore.__init__(dimension, index_type)
NewVectorStore(type) ==
    /\ index_type = type
    /\ index = InitializeIndex(type)
    /\ vectors = [is_none |-> TRUE, rows |-> <<>>]
    /\ metadata = <<>>
    /\ id_mapping = <<>>
    /\ disk = [index |-> None]

\* HybridRecommendationEngine.__init__, and the import of cache.py
NewEngine(seed, client) ==
    /\ hash_seed = seed
    /\ redis_client = client
    /\ cache = [k \in {} |-> None]
    /\ tfidf_vectorizer = [state |-> "none", vocabulary |-> {}]
    /\ fitted = [encoder |-> <<"unfitted">>, scaler |-> <<"unfitted">>,
                 svd |-> <<"unfitted">>]
    /\ resource_features = [is_none |-> TRUE]
    /\ models_disk = [saved |-> FALSE]

\* the resources whose ratings the database holds
RatedResourceIds == { 1, 2 }

\* no rebuild and no search is in progress
NoThreads == [rebuild |-> [pc |-> "idle"], search |-> [pc |-> "idle"]]

\* the database before any interaction: Resource.rating and
\* Resource.rating_count have the default 0 (ratings in hundredths)
NewDatabase ==
    /\ user_resource_interactions = <<>>
    /\ resources = [rid \in RatedResourceIds |-> [rating |-> 0, rating_count |-> 0]]

InitVS ==
    /\ \E type \in {"IndexIVFFlat", "IndexFlatIP"} : NewVectorStore(type)
    /\ NewEngine(0, None)
    /\ NewDatabase
    /\ running = NoThreads
    /\ last = [op |-> "idle", prev |-> <<"none", <<>>>>]

ResourceIds == { r.id : r \in ResourcePool }

NextVS ==
    \/ \E c \in Corpora : AddResources(c)
    \/ \E c \in Corpora : RebuildIndex(c)
    \/ \E q \in Queries, k \in 1..MaxTopK, f \in FilterSet : SearchSimilar(q, k, f)
    \/ \E r \in ResourcePool, rating \in {0, 500} :
            UpdateResource(r.id, [r EXCEPT !.rating = rating])
    \/ \E rid \in ResourceIds : DeleteResource(rid)
    \/ GetStats
    \/ Return

SpecVS == InitVS /\ [][NextVS]_vars

----------------------------------------------------------------------------
(* HybridRecommendationEngine: inputs *)

\* longest resource collection handed to the engine
MaxRecCorpus == 3

\* longest interaction history
MaxHistory == 1

\* largest limit of a get_recommendations call
MaxLimit == 3

\* n_components of the engine's TruncatedSVD, and the profile length
TargetDim == 20

\* the length of the vector _create_user_profile returns when it fails
FailedProfileLen == 100

\* the resources the engine is given, in storage order; row positions are
\* 0-based, so the collections that start at the second one have id = row.
\* The first one has a title of stop words only and no tags.
Catalogue ==
    << Res(9, "the", "video", "beginner", "visual", 10, 400, 0, <<>>),
       Res(0, "Python ", "video", "beginner", "visual", 30, 500, 10, <<"py">>),
       Res(1, "java", "article", "advanced", "reading", 240, 300, 2, <<"jvm">>),
       Res(2, "sql", "video", "intermediate", "visual", 60, 400, 250, <<"py", "db">>) >>

RecCorpora ==
    { SubSeq(Catalogue, i, j) : i \in 1..Len(Catalogue), j \in 0..Len(Catalogue) }
        \cap SeqsUpTo(Range(Catalogue), MaxRecCorpus)

\* an interaction record; days_old is the age of its naive created_at
Interaction(rid, type, days) ==
    [resource_id |-> rid, interaction_type |-> type, days_old |-> days]

InteractionPool ==
    { Interaction(0, "rate", 0),
      Interaction(1, "view", 0),
      Interaction(2, "complete", 60),
      [interaction_type |-> "view", days_old |-> 0] }

Histories == SeqsUpTo(InteractionPool, MaxHistory)

UserData ==
    { [preferred_difficulty |-> None, preferred_learning_style |-> None],
      [preferred_difficulty |-> "beginner", preferred_learning_style |-> "visual"] }

UserIds == { 7 }

----------------------------------------------------------------------------
(* FeatureBuilder *)

\* the tokens TfidfVectorizer(stop_words='english') finds in a title
TitleTokens(title) ==
    CASE PreprocessText(title) = "python" -> {"python"}
      [] PreprocessText(title) = "java"   -> {"java"}
      [] PreprocessText(title) = "sql"    -> {"sql"}
      [] OTHER                            -> {}

\* the tokens of f"{title} {description} {' '.join(tags)}"
Tokens(r) == TitleTokens(r.title) \cup Range(r.tags)

Vocabulary(c) == UNION { Tokens(c[i]) : i \in DOMAIN c }

\* the number of one-hot columns of the three categorical fields
CategoryColumns(c) ==
    Cardinality({ c[i].difficulty : i \in DOMAIN c })
    + Cardinality({ c[i].media_type : i \in DOMAIN c })
    + Cardinality({ c[i].learning_style : i \in DOMAIN c })

\* np.zeros((len(resources_df), 20))
ZeroFeatures(c) ==
    [is_none |-> FALSE, zero |-> TRUE, dim |-> TargetDim, n |-> Len(c),
     snapshot |-> c]

\* _create_resource_features(resources_df) on an engine whose vectorizer is
\* tf and whose encoder, scaler and svd are fit: the matrix, and the fitted
\* state it leaves.  Row i of a non-zero matrix is the reduced feature row of
\* snapshot[i+1]; TruncatedSVD yields at most one component per sample.
CreateResourceFeatures(tf, fit, c) ==
    LET created == tf.state = "none"
        vocab   == IF created THEN Vocabulary(c) ELSE tf.vocabulary
        tf_ok   == IF created THEN vocab # {} ELSE tf.state = "fitted"
        tf2     == IF created
                   THEN [state |-> IF tf_ok THEN "fitted" ELSE "unfitted",
                         vocabulary |-> vocab]
                   ELSE tf
        ok      == tf_ok /\ Len(c) > 0
        width   == Cardinality(vocab) + CategoryColumns(c) + 3
        n_components == Min(TargetDim, width - 1)
    IN  IF ok
        THEN [tfidf |-> tf2,
              fit |-> [encoder |-> <<"fitted", c>>, scaler |-> <<"fitted", c>>,
                       svd |-> <<"fitted", c>>],
              features |-> [is_none |-> FALSE, zero |-> FALSE,
                            dim |-> Min(n_components, Len(c)), n |-> Len(c),
                            snapshot |-> c]]
        ELSE [tfidf |-> tf2, fit |-> fit, features |-> ZeroFeatures(c)]

----------------------------------------------------------------------------
(* UserProfileBuilder *)

\* hash(s) % 100 under the interpreter's hash seed
HashMod100(s) ==
    CASE hash_seed = 0 /\ s = "beginner" -> 3
      [] hash_seed = 0 /\ s = "visual"   -> 3
      [] hash_seed = 1 /\ s = "beginner" -> 12
      [] hash_seed = 1 /\ s = "visual"   -> 57
      [] OTHER                           -> 0

\* the slots the stated preferences add 0.3 to, in order
PreferenceSlots(ud) ==
    (IF ud.preferred_difficulty # None
     THEN <<HashMod100(ud.preferred_difficulty)>> ELSE <<>>)
    \o (IF ud.preferred_learning_style # None
        THEN <<HashMod100(ud.preferred_learning_style)>> ELSE <<>>)

\* user_interactions[-50:]
LastFifty(ints) ==
    IF Len(ints) <= 50 THEN ints ELSE SubSeq(ints, Len(ints) - 49, Len(ints))

\* max(0.1, 1.0 / (1.0 + days_old / 30.0)), in thousandths
RecencyWeight(days) ==
    LET w == 30000 \div (30 + days) IN IF w < 100 THEN 100 ELSE w

\* the weight of an interaction type, in tenths
TypeWeight(type) ==
    CASE type = "complete" -> 10
      [] type = "rate"     -> 8
      [] type = "save"     -> 6
      [] type = "like"     -> 4
      [] type = "view"     -> 2
      [] OTHER             -> 1

\* line 141: the interaction adds a feature row to the profile
AddsRow(it, feats) ==
    /\ Has(it, "resource_id")
    /\ it.resource_id # 0
    /\ it.resource_id < feats.n

\* _create_user_profile(user_data, user_interactions): the profile before
\* normalisation, as the slots the preferences add to and the weighted rows
\* the interactions add; a failure anywhere (a slot beyond the vector, a
\* created_at string that fromisoformat rejects, a row of another length)
\* gives np.zeros(100)
CreateUserProfile(ud, ints, feats) ==
    LET slots  == PreferenceSlots(ud)
        recent == LastFifty(ints)
        adding == SelectSeq(recent, LAMBDA it : AddsRow(it, feats))
        failed == \/ \E i \in DOMAIN slots : slots[i] >= TargetDim
                  \/ \E i \in DOMAIN recent : Has(recent[i], "unparsable")
                  \/ (adding # <<>> /\ feats.dim # TargetDim)
    IN  IF failed
        THEN [len |-> FailedProfileLen, slots |-> <<>>, rows |-> <<>>]
        ELSE [len |-> TargetDim, slots |-> slots,
              rows |-> [i \in DOMAIN adding |->
                          [row |-> adding[i].resource_id,
                           recency_weight |-> RecencyWeight(adding[i].days_old),
                           type_weight |-> TypeWeight(adding[i].interaction_type)]]]

\* the profile is the zero vector
ZeroProfile(p, feats) ==
    p.slots = <<>> /\ (p.rows = <<>> \/ feats.zero)

----------------------------------------------------------------------------
(* HybridScorer *)

\* cosine_similarity(user_profile, resource_features[i]) in thousandths.  A
\* zero vector on either side gives 0.0; within the bounds the lengths agree
\* only for the all-zero matrix (a matrix of 20 columns needs 20 resources).
CosineSimilarity(p, feats, i) ==
    IF feats.zero \/ ZeroProfile(p, feats) THEN 0
    ELSE IF \E k \in DOMAIN p.rows : p.rows[k].row = i THEN 1000 ELSE 500

\* _content_based_scoring, for candidate row i, in thousandths
ContentScore(p, feats, i) ==
    IF i < feats.n
    THEN IF p.len = feats.dim THEN CosineSimilarity(p, feats, i) ELSE 100
    ELSE 0

\* _collaborative_filtering_scoring, for candidate row i, in thousandths
CollaborativeScore(ints, i) == 100

\* the threshold of the cold start
ColdStartBelow == 5

\* the hybrid score with a cold start that lasts through the fifth interaction
HybridScore_ColdAtFive(ints, cbf, cf) ==
    IF Len(ints) <= ColdStartBelow THEN 8 * cbf + 2 * cf ELSE 4 * cbf + 6 * cf

\* lines 253-258, in ten-thousandths
HybridScore(ints, cbf, cf) ==
    IF Len(ints) < ColdStartBelow THEN 8 * cbf + 2 * cf ELSE 4 * cbf + 6 * cf

\* _get_recommendation_reason
RecommendationReason(cbf, cf) ==
    IF cbf > cf THEN "Based on your learning preferences and content similarity"
    ELSE IF cf > cbf THEN "Popular among users with similar interests"
    ELSE "Recommended based on your profile and community preferences"

RECURSIVE SortDescByKey(_)
\* sorted(pairs, key=lambda x: x.key, reverse=True): stable, so equal keys
\* keep the order of pairs
SortDescByKey(pairs) ==
    IF pairs = <<>> THEN <<>>
    ELSE LET best == CHOOSE i \in DOMAIN pairs :
                        /\ \A j \in DOMAIN pairs : pairs[j].key <= pairs[i].key
                        /\ \A j \in 1..(i - 1) : pairs[j].key < pairs[i].key
             rest == [j \in 1..(Len(pairs) - 1) |->
                        IF j < best THEN pairs[j] ELSE pairs[j + 1]]
         IN  <<pairs[best]>> \o SortDescByKey(rest)

\* a sort that puts the later of two equal keys first
SortDesc_LaterFirst(items, keys) ==
    LET n == Len(items)
        sorted == SortDescByKey([i \in 1..n |->
                                    [item |-> items[n + 1 - i], key |-> keys[n + 1 - i]]])
    IN  [i \in DOMAIN sorted |-> sorted[i].item]

\* the items of a sequence in descending order of their keys, stably
SortDesc(items, keys) ==
    LET sorted == SortDescByKey([i \in DOMAIN items |->
                                    [item |-> items[i], key |-> keys[i]]])
    IN  [i \in DOMAIN sorted |-> sorted[i].item]

\* lines 233-240: the candidate rows, in row order
Candidates(ints, c) ==
    LET interacted == { ints[k].resource_id : k \in DOMAIN ints }
        rows == [i \in 1..Len(c) |-> i - 1]
    IN  SelectSeq(rows, LAMBDA i : i \notin interacted)

\* lines 242-279: the scored and ranked recommendations
ScoredRecommendations(p, feats, ints, c, limit) ==
    LET cand   == Candidates(ints, c)
        cbf(i) == ContentScore(p, feats, i)
        cf(i)  == CollaborativeScore(ints, i)
        hyb(i) == HybridScore(ints, cbf(i), cf(i))
        ranked == Take(SortDesc(cand, [k \in DOMAIN cand |-> hyb(cand[k])]), limit)
    IN  [k \in DOMAIN ranked |->
            [resource |-> c[ranked[k] + 1], row |-> ranked[k],
             recommendation_score |-> hyb(ranked[k]),
             recommendation_reason |->
                 RecommendationReason(cbf(ranked[k]), cf(ranked[k]))]]

\* a sort key of rating_count alone
PopularityKey_CountOnly(r) == r.rating_count

\* rating then rating_count, as one descending sort key
PopularityKey(r) == r.rating * 100000 + r.rating_count

\* _get_popular_resources that answers an empty collection with a stock entry
PopularResources_StockEntry(c, limit) ==
    IF c = <<>>
    THEN <<[resource |-> Catalogue[1], recommendation_score |-> 0,
            recommendation_reason |-> "Popular resource"]>>
    ELSE LET popular == Take(SortDesc(c, [k \in DOMAIN c |-> PopularityKey(c[k])]), limit)
         IN  [k \in DOMAIN popular |->
                 [resource |-> popular[k],
                  recommendation_score |-> popular[k].rating * 20,
                  recommendation_reason |-> "Popular resource"]]

\* _get_popular_resources(resources_df, limit); a DataFrame without rows has
\* no rating column, and the failed sort returns []
PopularResources(c, limit) ==
    LET popular == Take(SortDesc(c, [k \in DOMAIN c |-> PopularityKey(c[k])]), limit)
    IN  [k \in DOMAIN popular |->
            [resource |-> popular[k],
             recommendation_score |-> popular[k].rating * 20,
             recommendation_reason |-> "Popular resource"]]

----------------------------------------------------------------------------
(* Cache *)

\* get_cache_key("recommendations", user_id, limit)
CacheKey(uid, limit) == <<"recommendations", uid, limit>>

\* cache_get(key) returns something truthy
CacheHit(key) == redis_client # None /\ key \in DOMAIN cache

\* cache_set(key, value, expire) raises: redis-py refuses to encode a list
\* (DataError), and cache_set only catches ConnectionError
CacheSetRaises(value) == redis_client # None

----------------------------------------------------------------------------
(* RecommendationEngine *)

\* get_recommendations(user_id, user_data, user_interactions, resources_df,
\* limit)
GetRecommendations(uid, ud, ints, c, limit) ==
    LET key   == CacheKey(uid, limit)
        built == IF resource_features.is_none
                 THEN CreateResourceFeatures(tfidf_vectorizer, fitted, c)
                 ELSE [tfidf |-> tfidf_vectorizer, fit |-> fitted,
                       features |-> resource_features]
        feats == built.features
        p     == CreateUserProfile(ud, ints, feats)
        key_error == \E k \in DOMAIN ints : ~Has(ints[k], "resource_id")
        recs  == ScoredRecommendations(p, feats, ints, c, limit)
        raised == (IF resource_features.is_none /\ feats.zero
                   THEN {"features"} ELSE {})
                  \cup (IF p.len = FailedProfileLen THEN {"profile"} ELSE {})
                  \cup (IF key_error THEN {"candidates"} ELSE {})
                  \cup (IF ~key_error /\ CacheSetRaises(recs)
                        THEN {"cache_set"} ELSE {})
        call  == [op |-> "get_recommendations", prev |-> last.prev,
                  corpus |-> c, user_id |-> uid,
                  user_data |-> ud, user_interactions |-> ints, limit |-> limit]
    IN  IF CacheHit(key)
        THEN /\ Idle
             /\ last' = call @@ [path |-> "cache", result |-> cache[key].value]
             /\ UNCHANGED <<vsvars, recvars, dbvars, running>>
        ELSE /\ Idle
             /\ tfidf_vectorizer' = built.tfidf
             /\ fitted' = built.fit
             /\ resource_features' = feats
             /\ last' = call @@
                    [features |-> feats,
                     built |-> resource_features.is_none,
                     profile |-> p,
                     raised |-> raised,
                     path |-> IF key_error \/ CacheSetRaises(recs)
                              THEN "fallback" ELSE "scored",
                     result |-> IF key_error \/ CacheSetRaises(recs)
                                THEN PopularResources(c, limit) ELSE recs]
             /\ UNCHANGED <<vsvars, hash_seed, redis_client, cache, models_disk, dbvars, running>>

\* train_models(interactions_df, resources_df)
TrainModels(c) ==
    LET built == CreateResourceFeatures(tfidf_vectorizer, fitted, c)
    IN  /\ Idle
        /\ tfidf_vectorizer' = built.tfidf
        /\ fitted' = built.fit
        /\ resource_features' = built.features
        /\ models_disk' = [saved |-> TRUE, tfidf_vectorizer |-> built.tfidf,
                           fitted |-> built.fit,
                           resource_features |-> built.features]
        /\ last' = [op |-> "train_models", prev |-> last.prev, corpus |-> c]
        /\ UNCHANGED <<vsvars, hash_seed, redis_client, cache, dbvars, running>>

InitRec ==
    /\ NewVectorStore("IndexIVFFlat")
    /\ \E seed \in {0, 1}, client \in {None, "connected"} : NewEngine(seed, client)
    /\ NewDatabase
    /\ running = NoThreads
    /\ last = [op |-> "idle", prev |-> <<"none", <<>>>>]

NextRec ==
    \/ \E uid \in UserIds, ud \in UserData, ints \in Histories,
          c \in RecCorpora, limit \in {1, MaxLimit} :
            GetRecommendations(uid, ud, ints, c, limit)
    \/ \E c \in RecCorpora : TrainModels(c)
    \/ \E q \in Queries, k \in 1..MaxTopK, f \in FilterSet : SearchSimilar(q, k, f)
    \/ Return

SpecRec == InitRec /\ [][NextRec]_vars

----------------------------------------------------------------------------
(* Claims about the recommendation engine, checked under SpecRec *)

\* the resource ids of a history
InteractedIds(ints) ==
    { ints[k].resource_id : k \in { j \in DOMAIN ints : Has(ints[j], "resource_id") } }

\* C1: the list get_recommendations returns holds no resource whose id is
\* the resource_id of one of the user's interactions.
C1_NoInteractedResource ==
    last.op = "get_recommendations" =>
        \A k \in DOMAIN last.result :
            last.result[k].resource.id \notin InteractedIds(last.user_interactions)

\* C3: a get_recommendations call that computes scores uses a feature matrix
\* built from the resource collection of that very call.
C3_MatrixOfThisCall ==
    (last.op = "get_recommendations" /\ last.path = "scored") =>
        /\ last.features.snapshot = last.corpus
        /\ last.features.n = Len(last.corpus)

\* res is a popularity ranking of collection c cut at limit: resources of c,
\* none twice, rating descending, then rating_count descending, and nothing
\* left out ranks above something returned
IsPopularityRanking(res, c, limit) ==
    LET Above(a, b) == \/ a.rating > b.rating
                       \/ (a.rating = b.rating /\ a.rating_count > b.rating_count)
        returned == { res[k].resource : k \in DOMAIN res }
    IN  /\ Len(res) = Min(limit, Len(c))
        /\ returned \subseteq Range(c)
        /\ Cardinality(returned) = Len(res)
        /\ \A k \in DOMAIN res : \A l \in DOMAIN res :
              k < l => ~Above(res[l].resource, res[k].resource)
        /\ \A r \in Range(c) \ returned : \A k \in DOMAIN res :
              ~Above(r, res[k].resource)

\* res is a result of the scoring path for history ints: no candidate row is
\* a resource_id of the history, every entry carries a hybrid reason
IsScoredResult(res, ints) ==
    \A k \in DOMAIN res :
        /\ res[k].recommendation_reason # "Popular resource"
        /\ res[k].row \notin InteractedIds(ints)

----------------------------------------------------------------------------
(* Claims about the vector store, checked under SpecVS *)

Mutating == {"add_resources", "rebuild_index", "update_resource", "delete_resource"}

\* C2: after any sequence of add_resources, rebuild_index, update_resource
\* and delete_resource the stored vectors, the metadata and the id_mapping
\* have the same length.
C2_LengthsAgree ==
    (last.op \in Mutating /\ ~vectors.is_none) =>
        /\ Len(vectors.rows) = Len(metadata)
        /\ Len(metadata) = Len(id_mapping)

\* C5: a non-empty corpus below the minimum training size added to a store
\* whose index type needs training is added without failure, and a search
\* that follows returns the nearest stored resource, not nothing.
C5_SmallCorpusSearchable ==
    (last.op \in {"add_resources", "rebuild_index"}
        /\ index_type = "IndexIVFFlat"
        /\ Len(last.corpus) > 0 /\ Len(last.corpus) < MinTrainingSize) =>
        /\ ~last.failed
        /\ NTotal(index) >= Len(last.corpus)
        /\ \A q \in Queries : SearchIn(index, metadata, q, 1, FiltersNone) # <<>>

\* C6: once rebuild_index(resources) has returned, the index holds one
\* vector per given resource, metadata and id_mapping are those of the given
\* corpus, and get_stats would report total_vectors = metadata_count = the
\* number of given resources.
C6_RebuildReplacesAll ==
    last.op = "rebuild_index" =>
        /\ NTotal(index) = Len(last.corpus)
        /\ Len(metadata) = Len(last.corpus)
        /\ metadata = last.corpus
        /\ id_mapping = [i \in 1..Len(last.corpus) |-> last.corpus[i].id]

\* C7: a rebuild_index with the corpus of the rebuild_index before it (no
\* other mutation in between) leaves id_mapping, metadata, the stored
\* vectors and the index as the first one left them.
C7_RebuildIdempotent ==
    [][(last'.op = "rebuild_index" /\ last'.repeated) =>
            /\ id_mapping' = id_mapping
            /\ metadata' = metadata
            /\ vectors' = vectors
            /\ index' = index]_vars

\* C7 witness: the second of two rebuilds with one corpus of two resources,
\* on an index that holds their vectors
C7_Witness ==
    /\ last.op = "rebuild_index"
    /\ last.repeated
    /\ Len(last.corpus) = 2
    /\ NTotal(index) = 2

\* C8: update_resource and delete_resource leave index, stored vectors,
\* metadata and id_mapping as they were, and every search gives after the
\* call what it gave before it.
C8_UpdateDeleteChangeNothing ==
    [][(last'.op \in {"update_resource", "delete_resource"}) =>
            /\ index' = index
            /\ vectors' = vectors
            /\ metadata' = metadata
            /\ id_mapping' = id_mapping
            /\ \A q \in Queries, k \in 1..MaxTopK, f \in FilterSet :
                  SearchIn(index', metadata', q, k, f)
                      = SearchIn(index, metadata, q, k, f)]_vars

\* C8 witness: delete_resource was called for a resource the index holds
C8_Witness ==
    /\ last.op = "delete_resource"
    /\ NTotal(index) > 0
    /\ \E i \in DOMAIN metadata : metadata[i].id = last.resource_id

\* the filter f names key with a value that is not empty
Supplied(f, key) == Has(f, key) /\ f[key] # (IF key = "tags" THEN <<>> ELSE "")

\* resource r meets every filter that f supplies
MeetsFilters(r, f) ==
    /\ Supplied(f, "media_type") => r.media_type = f.media_type
    /\ Supplied(f, "difficulty") => r.difficulty = f.difficulty
    /\ Supplied(f, "learning_style") => r.learning_style = f.learning_style
    /\ Has(f, "min_duration") =>
          (r.duration_minutes.kind = "int"
              /\ r.duration_minutes.value >= f.min_duration)
    /\ Has(f, "max_duration") =>
          (r.duration_minutes.kind = "int"
              /\ r.duration_minutes.value <= f.max_duration)
    /\ Has(f, "min_rating") => r.rating >= f.min_rating
    /\ Supplied(f, "tags") => \E t \in Range(f.tags) : t \in Range(r.tags)

\* C9: every resource search_similar returns meets every supplied filter:
\* media_type, difficulty and learning_style equal the filter value, the
\* duration lies in the range, the rating reaches the minimum, the tags
\* intersect.
C9_ResultsMeetFilters ==
    last.op = "search_similar" =>
        \A k \in DOMAIN last.result :
            MeetsFilters(last.result[k].resource, last.filters)

\* the slots that rank among the m nearest to the query of the last search
NearestSlots(m) ==
    LET qv == CreateTextEmbedding(PreprocessText(last.query))
        slots == 0..(NTotal(index) - 1)
    IN  { s \in slots :
            Cardinality({ t \in slots : t # s /\ Nearer(index, qv, t, s) }) < m }

\* the resource of slot s passes the filters of the last search
SlotPasses(s) ==
    \/ Has(last.filters, "none")
    \/ DOMAIN last.filters = {}
    \/ (s < Len(metadata) /\ MeetsFilters(metadata[s + 1], last.filters))

\* C10: the result of search_similar is exactly the filter-passing
\* subsequence of the min(top_k, index size) nearest vectors in descending
\* order of similarity: at most top_k entries, none outside those nearest,
\* none of the passing ones missing.
C10_PostFilterOfNearest ==
    last.op = "search_similar" =>
        LET m    == Min(last.top_k, NTotal(index))
            near == NearestSlots(m)
            got  == { last.result[k].slot : k \in DOMAIN last.result }
        IN  /\ Len(last.result) <= last.top_k
            /\ Cardinality(got) = Len(last.result)
            /\ got = { s \in near : SlotPasses(s) }
            /\ \A k \in DOMAIN last.result : \A l \in DOMAIN last.result :
                  k < l => ~ScoreLess(last.result[k].similarity_score,
                                      last.result[l].similarity_score)

----------------------------------------------------------------------------
(* Resilience *)

\* C11: get_recommendations on an empty resource collection returns the
\* empty list, and search_similar on an index without vectors returns the
\* empty list, whatever the user data, history, query and filters.
C11_EmptyGivesEmpty ==
    /\ (last.op = "get_recommendations" /\ last.corpus = <<>>) =>
            last.result = <<>>
    /\ (last.op = "search_similar" /\ NTotal(index) = 0) =>
            last.result = <<>>

\* C11 witness: a call on an empty collection, by a user with a history and
\* preferences, on an engine whose feature matrix is that of an earlier,
\* non-empty collection
C11_Witness ==
    /\ last.op = "get_recommendations"
    /\ last.corpus = <<>>
    /\ last.user_interactions # <<>>
    /\ last.user_data.preferred_difficulty # None
    /\ last.features.n > 0
    /\ last.result = <<>>

----------------------------------------------------------------------------
(* Hybrid scoring on longer histories *)

\* longest history of the scoring specification
MaxInteractions == 6

\* histories of views of one resource, of every length up to the bound
LongHistories ==
    { [k \in 1..n |-> Interaction(1, "view", 0)] : n \in 0..MaxInteractions }

NextScore ==
    \/ \E uid \in UserIds, ud \in UserData, ints \in LongHistories,
          c \in RecCorpora :
            GetRecommendations(uid, ud, ints, c, MaxLimit)
    \/ \E c \in RecCorpora : TrainModels(c)
    \/ Return

SpecScore == InitRec /\ [][NextScore]_vars

\* C12: the score of every recommendation of the scoring path is
\* 0.8*content + 0.2*collaborative when the user has fewer than 5
\* interactions and 0.4*content + 0.6*collaborative when the user has 5 or
\* more (scores in ten-thousandths).
C12_HybridWeights ==
    (last.op = "get_recommendations" /\ last.path = "scored") =>
        \A k \in DOMAIN last.result :
            LET n   == Len(last.user_interactions)
                row == last.result[k].row
                cbf == ContentScore(last.profile, last.features, row)
                cf  == CollaborativeScore(last.user_interactions, row)
                got == last.result[k].recommendation_score
            IN  /\ n < 5 => got = 8 * cbf + 2 * cf
                /\ n >= 5 => got = 4 * cbf + 6 * cf

\* C12 witness: a user with exactly 5 interactions is given a resource of
\* content score 0 and collaborative score 0.1 with the score 0.06
C12_Witness ==
    /\ last.op = "get_recommendations"
    /\ last.path = "scored"
    /\ Len(last.user_interactions) = 5
    /\ \E k \in DOMAIN last.result :
          /\ ContentScore(last.profile, last.features, last.result[k].row) = 0
          /\ last.result[k].recommendation_score = 600

----------------------------------------------------------------------------
(* Ranking *)

\* hybrid scores the ranking is given, in ten-thousandths
ScoreValues == { 0, 200, 1000 }

\* candidate rows in row order, as lines 237-240 build them
CandidateLists ==
    { SelectSeq([i \in 1..MaxRecCorpus |-> i - 1], LAMBDA i : i \in S) :
        S \in SUBSET (0..(MaxRecCorpus - 1)) }

\* lines 262-267 on their own: the candidates sorted by score and cut at limit
RankCandidates(cand, scores, limit) ==
    /\ Idle
    /\ last' = [op |-> "rank", prev |-> last.prev, candidates |-> cand,
                scores |-> scores, limit |-> limit,
                result |-> Take(SortDesc(cand, scores), limit)]
    /\ UNCHANGED <<vsvars, recvars, dbvars, running>>

NextRank ==
    \/ \E cand \in CandidateLists, limit \in 1..MaxLimit :
          \E scores \in [1..Len(cand) -> ScoreValues] :
            RankCandidates(cand, scores, limit)
    \/ Return

SpecRank == InitRec /\ [][NextRank]_vars

\* rows is the ranking of the candidates cand, whose scores are the parallel
\* sequence scores, cut at limit: the first min(limit, number of candidates)
\* of them by descending score, equal scores in candidate order
IsRanking(rows, cand, scores, limit) ==
    LET pos(x) == CHOOSE i \in DOMAIN cand : cand[i] = x
        Before(x, y) == \/ scores[pos(x)] > scores[pos(y)]
                        \/ (scores[pos(x)] = scores[pos(y)] /\ pos(x) < pos(y))
    IN  /\ Len(rows) = Min(limit, Len(cand))
        /\ Range(rows) \subseteq Range(cand)
        /\ \A k \in DOMAIN rows : \A l \in DOMAIN rows :
              k < l => Before(rows[k], rows[l])
        /\ \A x \in Range(cand) \ Range(rows) : \A k \in DOMAIN rows :
              Before(rows[k], x)

\* C13: on the scoring path the recommendations are the candidates in
\* descending order of hybrid score, candidates of equal score in their
\* resource order, and exactly the first min(limit, number of candidates)
\* are returned.
C13_RankedByScore ==
    /\ last.op = "rank" =>
          IsRanking(last.result, last.candidates, last.scores, last.limit)
    /\ (last.op = "get_recommendations" /\ last.path = "scored") =>
          LET cand == Candidates(last.user_interactions, last.corpus)
              hyb(i) == HybridScore(last.user_interactions,
                                    ContentScore(last.profile, last.features, i),
                                    CollaborativeScore(last.user_interactions, i))
          IN  /\ IsRanking([k \in DOMAIN last.result |-> last.result[k].row],
                           cand, [k \in DOMAIN cand |-> hyb(cand[k])], last.limit)
              /\ \A k \in DOMAIN last.result :
                    /\ last.result[k].resource = last.corpus[last.result[k].row + 1]
                    /\ last.result[k].recommendation_score = hyb(last.result[k].row)

\* C13 witness: three candidates, the last with the highest score and the
\* first two with equal scores, cut at two: the last one first, then the
\* first one
C13_Witness ==
    /\ last.op = "rank"
    /\ last.candidates = <<0, 1, 2>>
    /\ last.scores = <<200, 200, 1000>>
    /\ last.limit = 2
    /\ last.result = <<2, 0>>

----------------------------------------------------------------------------
(* The new user *)

\* C14: for a collection of 3 resources with the ratings 5.0, 3.0, 4.0 in
\* that order, a user without interactions and without preferences is given
\* exactly the 3 resources, in the order rating 5.0, 4.0, 3.0.
C14_NewUserGetsPopularityOrder ==
    (last.op = "get_recommendations"
        /\ [i \in DOMAIN last.corpus |-> last.corpus[i].rating] = <<500, 300, 400>>
        /\ last.user_interactions = <<>>
        /\ last.user_data.preferred_difficulty = None
        /\ last.user_data.preferred_learning_style = None
        /\ last.limit >= 3) =>
        [k \in DOMAIN last.result |-> last.result[k].resource.rating]
            = <<500, 400, 300>>

----------------------------------------------------------------------------
(* Rating interactions: endpoints/resources.py *)

\* most rows of user_resource_interactions
MaxRatings == 3

UserPool == { 1, 2 }

\* ResourceRating.rating is 1..5; three of them
RatingValues == { 3, 4, 5 }

\* UserResourceInteraction.rating of a row that carries none
NoRating == 0

InteractionRow(user, rid, type, rating) ==
    [user_id |-> user, resource_id |-> rid, interaction_type |-> type,
     rating |-> rating]

\* round(sum / n, 2) in hundredths; below 8 ratings of whole stars the mean
\* never lies half-way between two hundredths
RoundedMean(sum, n) == (200 * sum + n) \div (2 * n)

\* the positions of the rate rows of resource rid that carry a rating
RateRows(table, rid) ==
    { i \in DOMAIN table : /\ table[i].resource_id = rid
                            /\ table[i].interaction_type = "rate"
                            /\ table[i].rating # NoRating }

RECURSIVE SumRatings(_, _)
SumRatings(table, rows) ==
    IF rows = {} THEN 0
    ELSE LET i == CHOOSE j \in rows : TRUE
         IN  table[i].rating + SumRatings(table, rows \ {i})

\* rate_resource(resource_id, rating_data) by current_user.  The session
\* does not autoflush: the query for the aggregate sees the rows the
\* database held before the call, with the value just assigned to a row
\* that is re-rated, and not the row just added.
RateResource(user, rid, rating) ==
    LET mine == { i \in DOMAIN user_resource_interactions :
                    /\ user_resource_interactions[i].user_id = user
                    /\ user_resource_interactions[i].resource_id = rid
                    /\ user_resource_interactions[i].interaction_type = "rate" }
        existing == CHOOSE i \in mine : \A j \in mine : i <= j
        session == IF mine # {}
                   THEN [user_resource_interactions EXCEPT ![existing].rating = rating]
                   ELSE user_resource_interactions
        ratings == RateRows(user_resource_interactions, rid)
    IN  /\ Idle
        /\ mine = {} => Len(user_resource_interactions) < MaxRatings
        /\ user_resource_interactions' =
              IF mine # {} THEN session
              ELSE Append(user_resource_interactions,
                          InteractionRow(user, rid, "rate", rating))
        /\ resources' =
              IF ratings # {}
              THEN [resources EXCEPT ![rid] =
                        [rating |-> RoundedMean(SumRatings(session, ratings),
                                                Cardinality(ratings)),
                         rating_count |-> Cardinality(ratings)]]
              ELSE resources
        /\ last' = [op |-> "rate_resource", prev |-> last.prev, user_id |-> user,
                    resource_id |-> rid, rating |-> rating]
        /\ UNCHANGED <<vsvars, recvars, running>>

\* record_interaction(resource_id, interaction_data) by current_user
RecordInteraction(user, rid, type, rating) ==
    /\ Idle
    /\ Len(user_resource_interactions) < MaxRatings
    /\ user_resource_interactions' =
          Append(user_resource_interactions, InteractionRow(user, rid, type, rating))
    /\ last' = [op |-> "record_interaction", prev |-> last.prev, user_id |-> user,
                resource_id |-> rid, interaction_type |-> type, rating |-> rating]
    /\ UNCHANGED <<vsvars, recvars, resources, running>>

NextRatings ==
    \/ \E user \in UserPool, rid \in RatedResourceIds, rating \in RatingValues :
          RateResource(user, rid, rating)
    \/ \E user \in UserPool, rid \in RatedResourceIds, rating \in RatingValues :
          RecordInteraction(user, rid, "rate", rating)
    \/ \E rid \in RatedResourceIds : RecordInteraction(1, rid, "view", NoRating)
    \/ Return

InitRatings ==
    /\ NewVectorStore("IndexIVFFlat")
    /\ NewEngine(0, None)
    /\ NewDatabase
    /\ running = NoThreads
    /\ last = [op |-> "idle", prev |-> <<"none", <<>>>>]

SpecRatings == InitRatings /\ [][NextRatings]_vars

\* C15: whenever the caller is between two calls, the rating of every
\* resource is the mean of the ratings of all its rate interactions, rounded
\* to 2 decimals, and its rating_count is the number of those interactions
\* (a resource without any keeps the defaults 0 and 0).
C15_RatingIsMeanOfRates ==
    Idle =>
        \A rid \in RatedResourceIds :
            LET rows == RateRows(user_resource_interactions, rid)
                n == Cardinality(rows)
            IN  /\ resources[rid].rating_count = n
                /\ resources[rid].rating =
                      IF n = 0 THEN 0
                      ELSE RoundedMean(SumRatings(user_resource_interactions, rows), n)

----------------------------------------------------------------------------
(* Caching of recommendations *)

\* HybridRecommendationEngine.cache_expiry, in seconds
CacheExpiry == 3600

\* what the call of last would return on an engine without a cache, from the
\* feature matrix and the profile the call used
UncachedResult ==
    IF \E k \in DOMAIN last.user_interactions :
           ~Has(last.user_interactions[k], "resource_id")
    THEN PopularResources(last.corpus, last.limit)
    ELSE ScoredRecommendations(last.profile, last.features,
                               last.user_interactions, last.corpus, last.limit)

\* C16: a get_recommendations call that finds an entry under (user_id,
\* limit) returns that entry; a call that finds none, on a connected cache,
\* returns the result it computed and leaves it in the cache under
\* (user_id, limit) with a time to live of one hour.
C16_ResultIsCached ==
    last.op = "get_recommendations" =>
        LET key == CacheKey(last.user_id, last.limit)
        IN  /\ last.path = "cache" => last.result = cache[key].value
            /\ (last.path # "cache" /\ redis_client # None) =>
                  /\ last.result = UncachedResult
                  /\ key \in DOMAIN cache
                  /\ cache[key] = [value |-> last.result, ttl |-> CacheExpiry]

\* C17: without a cache every call is a miss, and a call that misses returns
\* the same list with a connected cache as without one.
C17_CacheNeverChangesResult ==
    last.op = "get_recommendations" =>
        /\ redis_client = None => last.path # "cache"
        /\ last.path # "cache" => last.result = UncachedResult

----------------------------------------------------------------------------
(* A rebuild and a search on the same VectorStore, statement by statement *)

\* VectorStore has no lock: two threads that call rebuild_index and
\* search_similar on the same instance interleave between any two
\* statements.  running.rebuild and running.search hold the position and
\* the locals of the two calls.

ThreadFilters == { FiltersNone, [media_type |-> "video"] }

\* the corpora the rebuilds are given: none, and two resources in either
\* order
ThreadCorpora ==
    { c \in Corpora : Len(c) = 0 \/ (Len(c) = 2 /\ {c[1].id, c[2].id} = {1, 3}) }

\* the vectors add_resources computes for corpus c
ResourceVectors(c) == [i \in 1..Len(c) |-> CreateResourceVector(c[i])]

\* what a search answers on the store as a completed rebuild_index(c) of a
\* store of type index_type leaves it
SearchAfterRebuild(c, q, k, f) ==
    SearchIn(IndexAdd(InitializeIndex(index_type), ResourceVectors(c)).index,
             c, q, k, f)

Searching == running.search.pc \in {"search", "format"}

Rebuilding == running.rebuild.pc # "idle"

\* rebuild_index is entered and resets the index (_initialize_index); a
\* search in progress may from now on see the store of this rebuild
RebuildBegin(c) ==
    /\ ~Rebuilding
    /\ index' = InitializeIndex(index_type)
    /\ running' =
         [rebuild |-> [pc |-> "clear_metadata", corpus |-> c,
                       before |-> [index |-> index, metadata |-> metadata]],
          search |->
            IF Searching
            THEN [running.search EXCEPT !.allowed =
                      @ \cup {SearchAfterRebuild(c, running.search.query,
                                                  running.search.top_k,
                                                  running.search.filters)}]
            ELSE running.search]
    /\ UNCHANGED <<index_type, vectors, metadata, id_mapping, disk,
                   recvars, dbvars, last>>

\* self.metadata = []
RebuildClearMetadata ==
    /\ running.rebuild.pc = "clear_metadata"
    /\ metadata' = <<>>
    /\ running' = [running EXCEPT !.rebuild.pc = "clear_id_mapping"]
    /\ UNCHANGED <<index_type, index, vectors, id_mapping, disk,
                   recvars, dbvars, last>>

\* self.id_mapping = {}
RebuildClearIdMapping ==
    /\ running.rebuild.pc = "clear_id_mapping"
    /\ id_mapping' = <<>>
    /\ running' = [running EXCEPT !.rebuild.pc = "map_ids"]
    /\ UNCHANGED <<index_type, index, vectors, metadata, disk,
                   recvars, dbvars, last>>

\* add_resources: the loop over the rows, which writes self.id_mapping
AddMapIds ==
    /\ running.rebuild.pc = "map_ids"
    /\ id_mapping' = MapIds(id_mapping, running.rebuild.corpus)
    /\ running' = [running EXCEPT !.rebuild.pc = "set_vectors"]
    /\ UNCHANGED <<index_type, index, vectors, metadata, disk,
                   recvars, dbvars, last>>

\* add_resources: self.vectors = vectors_array
AddSetVectors ==
    /\ running.rebuild.pc = "set_vectors"
    /\ vectors' = [is_none |-> FALSE,
                   rows |-> ResourceVectors(running.rebuild.corpus)]
    /\ running' = [running EXCEPT !.rebuild.pc = "set_metadata"]
    /\ UNCHANGED <<index_type, index, metadata, id_mapping, disk,
                   recvars, dbvars, last>>

\* add_resources: self.metadata = metadata
AddSetMetadata ==
    /\ running.rebuild.pc = "set_metadata"
    /\ metadata' = running.rebuild.corpus
    /\ running' = [running EXCEPT !.rebuild.pc = "index_add"]
    /\ UNCHANGED <<index_type, index, vectors, id_mapping, disk,
                   recvars, dbvars, last>>

\* add_resources: self.index.add(vectors_array); an empty corpus or a
\* refused add ends the call without a save
AddToIndex ==
    /\ running.rebuild.pc = "index_add"
    /\ LET added == IndexAdd(index, ResourceVectors(running.rebuild.corpus))
       IN  /\ index' = added.index
           /\ running' = [running EXCEPT !.rebuild =
                  IF added.ok /\ Len(running.rebuild.corpus) > 0
                  THEN [@ EXCEPT !.pc = "save"]
                  ELSE [pc |-> "idle"]]
    /\ UNCHANGED <<index_type, vectors, metadata, id_mapping, disk,
                   recvars, dbvars, last>>

\* add_resources: self._save_index(), and the two calls return
AddSave ==
    /\ running.rebuild.pc = "save"
    /\ disk' = SavedBlob(index, metadata, id_mapping)
    /\ running' = [running EXCEPT !.rebuild = [pc |-> "idle"]]
    /\ UNCHANGED <<index_type, index, vectors, metadata, id_mapping,
                   recvars, dbvars, last>>

\* search_similar is entered: the query vector and the test of
\* self.index.ntotal.  allowed is the set of answers of the complete stores
\* this search overlaps: the store as it is when no rebuild is in progress,
\* else the stores before and after that rebuild
SearchBegin(q, k, f) ==
    /\ running.search.pc = "idle"
    /\ LET allowed ==
             IF Rebuilding
             THEN {SearchIn(running.rebuild.before.index,
                            running.rebuild.before.metadata, q, k, f),
                   SearchAfterRebuild(running.rebuild.corpus, q, k, f)}
             ELSE {SearchIn(index, metadata, q, k, f)}
           call == [query |-> q, top_k |-> k, filters |-> f,
                    allowed |-> allowed, overlapped |-> Rebuilding]
       IN  running' = [running EXCEPT !.search =
              IF NTotal(index) = 0
              THEN call @@ [pc |-> "done", result |-> <<>>]
              ELSE call @@ [pc |-> "search"]]
    /\ UNCHANGED <<vsvars, recvars, dbvars, last>>

\* self.index.search(query_vector, min(top_k, self.index.ntotal))
SearchIndex ==
    /\ running.search.pc = "search"
    /\ LET qv == CreateTextEmbedding(PreprocessText(running.search.query))
       IN  running' = [running EXCEPT !.search =
              [query |-> @.query, top_k |-> @.top_k, filters |-> @.filters,
               allowed |-> @.allowed,
               overlapped |-> @.overlapped \/ Rebuilding,
               pc |-> "format", searched |-> index,
               near |-> IndexSearch(index, qv,
                                    Min(@.top_k, NTotal(index))),
               results |-> <<>>]]
    /\ UNCHANGED <<vsvars, recvars, dbvars, last>>

\* one turn of the loop over the retrieved slots: it reads self.metadata
SearchFormat ==
    /\ running.search.pc = "format"
    /\ running.search.near # <<>>
    /\ LET call == running.search
           qv   == CreateTextEmbedding(PreprocessText(call.query))
           slot == Head(call.near)
           keep == /\ slot # -1
                   /\ slot < Len(metadata)
                   /\ MatchesFilters(metadata[slot + 1], call.filters)
       IN  running' = [running EXCEPT !.search =
              [@ EXCEPT !.near = Tail(@),
                        !.overlapped = @ \/ Rebuilding,
                        !.results =
                            IF keep
                            THEN Append(@, Hit(metadata, call.searched, qv,
                                               slot, Len(@) + 1))
                            ELSE @]]
    /\ UNCHANGED <<vsvars, recvars, dbvars, last>>

\* return results[:top_k]
SearchReturn ==
    /\ running.search.pc = "format"
    /\ running.search.near = <<>>
    /\ running' = [running EXCEPT !.search =
          [query |-> @.query, top_k |-> @.top_k, filters |-> @.filters,
           allowed |-> @.allowed, overlapped |-> @.overlapped,
           pc |-> "done", result |-> Take(@.results, @.top_k)]]
    /\ UNCHANGED <<vsvars, recvars, dbvars, last>>

\* the caller of search_similar takes the answer
SearchEnd ==
    /\ running.search.pc = "done"
    /\ running' = [running EXCEPT !.search = [pc |-> "idle"]]
    /\ UNCHANGED <<vsvars, recvars, dbvars, last>>

InitThreads ==
    /\ NewVectorStore("IndexFlatIP")
    /\ NewEngine(0, None)
    /\ NewDatabase
    /\ running = NoThreads
    /\ last = [op |-> "idle", prev |-> <<"none", <<>>>>]

NextThreads ==
    \/ \E c \in ThreadCorpora : RebuildBegin(c)
    \/ RebuildClearMetadata
    \/ RebuildClearIdMapping
    \/ AddMapIds
    \/ AddSetVectors
    \/ AddSetMetadata
    \/ AddToIndex
    \/ AddSave
    \/ \E q \in Queries, f \in ThreadFilters : SearchBegin(q, MaxTopK, f)
    \/ SearchIndex
    \/ SearchFormat
    \/ SearchReturn
    \/ SearchEnd

SpecThreads == InitThreads /\ [][NextThreads]_vars

\* C18: a search that runs while rebuild_index runs on the same store
\* answers as it would on the complete store before the rebuild or on the
\* complete store after it, and never from a store whose index and
\* metadata belong to different corpora.
C18_SearchSeesWholeStore ==
    running.search.pc = "done"
        => running.search.result \in running.search.allowed

----------------------------------------------------------------------------
(* Persistence: the blobs on disk, a new process, and the load functions *)

\* the keys of the dictionary _save_index writes, in the order _load_index
\* reads them
IndexBlobKeys == <<"index", "metadata", "id_mapping", "dimension", "index_type">>

\* a file that pickle.load cannot decode
UndecodableBlob == [unpickles |-> FALSE]

\* what models/faiss_index.pkl holds: nothing, bytes that do not unpickle,
\* a dictionary that lacks some of the keys, or what _save_index wrote
BlobKind(b) ==
    IF Has(b, "unpickles") THEN "undecodable"
    ELSE IF DOMAIN b = {"index"} THEN "missing"
    ELSE IF DOMAIN b = Range(IndexBlobKeys) THEN "saved"
    ELSE "incomplete"

\* what models/recommendation_models.pkl holds
ModelsBlobKind(b) ==
    IF ~b.saved THEN "missing"
    ELSE IF Has(b, "unpickles") THEN "undecodable"
    ELSE IF Has(b, "resource_features") THEN "saved"
    ELSE "incomplete"

\* the number of assignments of _load_index that succeed on dictionary b:
\* the keys before the first one that b lacks
LoadedKeys(b) ==
    Cardinality({ n \in 1..Len(IndexBlobKeys) :
                    \A m \in 1..n : Has(b, IndexBlobKeys[m]) })

\* the store is as __init__ leaves it
FreshStore ==
    /\ NTotal(index) = 0
    /\ metadata = <<>>
    /\ id_mapping = <<>>
    /\ vectors.is_none

\* the engine is as __init__ leaves it
FreshEngine ==
    /\ tfidf_vectorizer.state = "none"
    /\ resource_features.is_none

\* a new process: VectorStore(index_type=type) and
\* HybridRecommendationEngine() are constructed; the files stay on disk,
\* and neither constructor reads them
Construct(type) ==
    /\ Idle
    /\ index_type' = type
    /\ index' = InitializeIndex(type)
    /\ vectors' = [is_none |-> TRUE, rows |-> <<>>]
    /\ metadata' = <<>>
    /\ id_mapping' = <<>>
    /\ tfidf_vectorizer' = [state |-> "none", vocabulary |-> {}]
    /\ fitted' = [encoder |-> <<"unfitted">>, scaler |-> <<"unfitted">>,
                  svd |-> <<"unfitted">>]
    /\ resource_features' = [is_none |-> TRUE]
    /\ last' = [op |-> "construct", prev |-> last.prev,
                saved_index |-> BlobKind(disk) = "saved",
                saved_models |-> ModelsBlobKind(models_disk) = "saved"]
    /\ UNCHANGED <<disk, models_disk, hash_seed, redis_client, cache, dbvars,
                   running>>

\* _load_index(): without a file nothing is assigned; when pickle.load or
\* an assignment raises, the handler calls _initialize_index() and leaves
\* what was assigned before
LoadIndex ==
    /\ Idle
    /\ LET kind == BlobKind(disk)
           n    == IF kind \in {"saved", "incomplete"} THEN LoadedKeys(disk) ELSE 0
           all  == n = Len(IndexBlobKeys)
       IN  /\ index' = IF kind = "missing" THEN index
                       ELSE IF all THEN disk.index
                       ELSE InitializeIndex(index_type)
           /\ metadata' = IF n >= 2 THEN disk.metadata ELSE metadata
           /\ id_mapping' = IF n >= 3 THEN disk.id_mapping ELSE id_mapping
           /\ index_type' = IF all THEN disk.index_type ELSE index_type
           /\ last' = [op |-> "load_index", prev |-> last.prev, blob |-> kind,
                       fresh |-> FreshStore]
    /\ UNCHANGED <<vectors, disk, recvars, dbvars, running>>

\* _load_models(): every attribute is model_data.get(key), None for a key
\* the dictionary lacks; the handler only logs
LoadModels ==
    /\ Idle
    /\ LET kind == ModelsBlobKind(models_disk)
           read == kind \in {"saved", "incomplete"}
       IN  /\ tfidf_vectorizer' = IF read THEN models_disk.tfidf_vectorizer
                                  ELSE tfidf_vectorizer
           /\ fitted' = IF read THEN models_disk.fitted ELSE fitted
           /\ resource_features' =
                 IF kind = "saved" THEN models_disk.resource_features
                 ELSE IF kind = "incomplete" THEN [is_none |-> TRUE]
                 ELSE resource_features
           /\ last' = [op |-> "load_models", prev |-> last.prev, blob |-> kind,
                       fresh |-> FreshEngine]
    /\ UNCHANGED <<vsvars, hash_seed, redis_client, cache, models_disk,
                   dbvars, running>>

\* models/faiss_index.pkl is cut short, or replaced by a dictionary of
\* another layout
DamageIndexBlob ==
    /\ Idle
    /\ \/ /\ BlobKind(disk) # "undecodable"
          /\ disk' = UndecodableBlob
       \/ /\ BlobKind(disk) = "saved"
          /\ disk' = [index |-> disk.index, metadata |-> disk.metadata]
    /\ UNCHANGED <<index_type, index, vectors, metadata, id_mapping,
                   recvars, dbvars, running, last>>

\* models/recommendation_models.pkl is cut short, or replaced by a
\* dictionary of another layout
DamageModelsBlob ==
    /\ Idle
    /\ \/ /\ ModelsBlobKind(models_disk) # "undecodable"
          /\ models_disk' = [saved |-> TRUE, unpickles |-> FALSE]
       \/ /\ ModelsBlobKind(models_disk) = "saved"
          /\ models_disk' = [saved |-> TRUE,
                             tfidf_vectorizer |-> models_disk.tfidf_vectorizer,
                             fitted |-> models_disk.fitted]
    /\ UNCHANGED <<vsvars, hash_seed, redis_client, cache, tfidf_vectorizer,
                   fitted, resource_features, dbvars, running, last>>

\* the corpora train_models is given here: the catalogue and its first
\* resource
TrainCorpora == { c \in RecCorpora : c # <<>> /\ c[1] = Catalogue[1]
                                        /\ Len(c) \in {1, Len(Catalogue)} }

InitLoad ==
    /\ \E type \in {"IndexIVFFlat", "IndexFlatIP"} : NewVectorStore(type)
    /\ NewEngine(0, None)
    /\ NewDatabase
    /\ running = NoThreads
    /\ last = [op |-> "idle", prev |-> <<"none", <<>>>>]

NextLoad ==
    \/ \E type \in {"IndexIVFFlat", "IndexFlatIP"} : Construct(type)
    \/ \E c \in ThreadCorpora : RebuildIndex(c)
    \/ \E c \in TrainCorpora : TrainModels(c)
    \/ LoadIndex
    \/ LoadModels
    \/ DamageIndexBlob
    \/ DamageModelsBlob
    \/ Return

SpecLoad == InitLoad /\ [][NextLoad]_vars

\* C19: _load_index on a newly constructed store whose file is missing,
\* undecodable or incomplete leaves an empty index, empty metadata and an
\* empty id_mapping, and _load_models on a newly constructed engine whose
\* file is missing, undecodable or incomplete leaves no feature matrix and
\* no fitted vectorizer.
C19_FailedLoadLeavesEmpty ==
    /\ (last.op = "load_index" /\ last.fresh /\ last.blob # "saved")
          => (NTotal(index) = 0 /\ metadata = <<>> /\ id_mapping = <<>>)
    /\ (last.op = "load_models" /\ last.fresh /\ last.blob # "saved")
          => (resource_features.is_none /\ tfidf_vectorizer.state = "none")

\* C20: a store constructed after a successful save holds the index, the
\* metadata, the id_mapping and the index type of the saved blob, and an
\* engine constructed after a successful save holds the saved vectorizer,
\* fitted transformers and feature matrix.
C20_SavedStateIsLoadedAtStart ==
    last.op = "construct" =>
        /\ last.saved_index =>
              /\ index = disk.index
              /\ metadata = disk.metadata
              /\ id_mapping = disk.id_mapping
              /\ index_type = disk.index_type
        /\ last.saved_models =>
              /\ tfidf_vectorizer = models_disk.tfidf_vectorizer
              /\ fitted = models_disk.fitted
              /\ resource_features = models_disk.resource_features

----------------------------------------------------------------------------
(* The feature builder across calls *)

\* C21: the matrix train_models gets from _create_resource_features for a
\* corpus of N resources has N rows and TargetDim columns, whatever N is.
C21_FeaturesHaveFixedWidth ==
    last.op = "train_models" =>
        /\ ~resource_features.is_none
        /\ resource_features.n = Len(last.corpus)
        /\ resource_features.dim = TargetDim

\* C28: after train_models(interactions, resources) with at least one
\* resource, on an engine whose text vectorizer is fitted, the vocabulary
\* of the vectorizer, the encoder, the scaler and the reduction are fitted
\* on the resources given, and the file holds that fitted state with the
\* feature matrix of these resources.
C28_TrainingRefitsOnSnapshot ==
    (/\ last.op = "train_models"
     /\ last.corpus # <<>>
     /\ tfidf_vectorizer.state = "fitted") =>
        /\ tfidf_vectorizer.vocabulary = Vocabulary(last.corpus)
        /\ fitted = [encoder |-> <<"fitted", last.corpus>>,
                     scaler |-> <<"fitted", last.corpus>>,
                     svd |-> <<"fitted", last.corpus>>]
        /\ resource_features.snapshot = last.corpus
        /\ models_disk = [saved |-> TRUE, tfidf_vectorizer |-> tfidf_vectorizer,
                          fitted |-> fitted,
                          resource_features |-> resource_features]

\* C30: a call of _create_resource_features on a corpus with words, made
\* after a call on an empty corpus or on one without any word, gives the
\* features of its corpus and not the matrix of zeros.
C30_FailedBuildDoesNotPoison ==
    (last.op = "train_models" /\ Vocabulary(last.corpus) # {}) =>
        ~resource_features.zero

----------------------------------------------------------------------------
(* The user profile *)

\* the tags of the resources of a collection large enough for a feature
\* matrix of TargetDim columns
TagNames ==
    << "t01", "t02", "t03", "t04", "t05", "t06", "t07", "t08", "t09", "t10",
       "t11", "t12", "t13", "t14", "t15", "t16", "t17", "t18", "t19", "t20",
       "t21" >>

\* the table resources with one resource per tag, the first having id
\* first_id (the database counts ids from 1)
LargeCorpus(first_id) ==
    [i \in 1..Len(TagNames) |->
        Res(first_id + i - 1, "the", "video", "beginner", "visual", 30, 400, 1,
            <<TagNames[i]>>)]

ProfileCorpora == { <<>>, SubSeq(Catalogue, 2, 4), LargeCorpus(0), LargeCorpus(1) }

\* an interaction whose created_at is a string that is no ISO date
BadTimestamp(rid, type) ==
    [resource_id |-> rid, interaction_type |-> type, unparsable |-> TRUE]

ProfileInteractions ==
    { Interaction(0, "rate", 0),
      Interaction(1, "view", 0),
      Interaction(30, "view", 0),
      BadTimestamp(2, "complete") }

\* user_interactions[-50:] keeps this many
HistoryWindow == 50

\* the rows of user_resource_interactions of one user, in the order they
\* were written: none, one, and one more than the window
StoredHistories ==
    { <<>>,
      <<Interaction(1, "view", 3)>>,
      <<Interaction(2, "like", 90)>>
          \o [i \in 1..(HistoryWindow - 1) |-> Interaction(3, "view", 10)]
          \o <<Interaction(1, "complete", 0)>> }

\* the lists handed to the engine by other callers
ProfileHistories == SeqsUpTo(ProfileInteractions, 2)

\* lines 54-66 of get_user_recommendations:
\* order_by(desc(UserResourceInteraction.created_at)).all()
UserInteractions(rows) ==
    SortDesc(rows, [i \in DOMAIN rows |-> 0 - rows[i].days_old])

\* self._create_user_profile(user_data, user_interactions), line 230 of
\* get_recommendations, once the feature matrix exists
CreateUserProfileCall(ud, ints, source) ==
    /\ Idle
    /\ ~resource_features.is_none
    /\ last' = [op |-> "create_user_profile", prev |-> last.prev,
                user_data |-> ud, interactions |-> ints, source |-> source,
                result |-> CreateUserProfile(ud, ints, resource_features)]
    /\ UNCHANGED <<vsvars, recvars, dbvars, running>>

NextProfile ==
    \/ \E c \in ProfileCorpora : TrainModels(c)
    \/ \E ud \in UserData, ints \in ProfileHistories :
            CreateUserProfileCall(ud, ints, "caller")
    \/ \E ud \in UserData, rows \in StoredHistories :
            CreateUserProfileCall(ud, UserInteractions(rows), "endpoint")
    \/ Return

SpecProfile == InitRec /\ [][NextProfile]_vars

Profiled == last.op = "create_user_profile"

\* C22: for a user without interactions and a feature matrix of TargetDim
\* columns, the profile has as many entries as the matrix has columns, and
\* every stated preference adds to a slot below that number.
C22_ProfileMatchesFeatureWidth ==
    (/\ Profiled
     /\ last.interactions = <<>>
     /\ resource_features.dim = TargetDim) =>
        /\ last.result.len = resource_features.dim
        /\ last.result.slots = PreferenceSlots(last.user_data)
        /\ \A i \in DOMAIN last.result.slots :
              last.result.slots[i] < resource_features.dim

\* the interactions of a list that the profile builder can read
Readable(ints) == SelectSeq(ints, LAMBDA it : ~Has(it, "unparsable"))

\* C23: an interaction that cannot be read is skipped alone: the profile is
\* the one built from the same preferences and the other interactions.
C23_BadInteractionSkippedAlone ==
    Profiled =>
        last.result = CreateUserProfile(last.user_data,
                                        Readable(last.interactions),
                                        resource_features)

\* the HistoryWindow interactions with the latest created_at
MostRecent(ints) ==
    LET latest_first == UserInteractions(ints)
    IN  SubSeq(latest_first, 1, Min(HistoryWindow, Len(latest_first)))

\* C24: on the history the recommendations endpoint hands over, the profile
\* is the one built from the HistoryWindow most recent interactions alone.
C24_ProfileFromMostRecent ==
    (Profiled /\ last.source = "endpoint") =>
        last.result = CreateUserProfile(last.user_data,
                                        MostRecent(last.interactions),
                                        resource_features)

\* the profile was built without a failure, on a matrix that is not the
\* fallback of zeros
ProfileBuilt ==
    /\ Profiled
    /\ last.result.len = TargetDim
    /\ ~resource_features.zero

\* the examined interactions whose resource id is a row of the matrix
InRange(ints, feats) ==
    SelectSeq(LastFifty(ints),
              LAMBDA it : /\ Has(it, "resource_id")
                          /\ it.resource_id >= 0
                          /\ it.resource_id < feats.n)

\* C25: every examined interaction whose resource id is a row index of the
\* matrix, 0 included, adds that row with its recency and type weights.
C25_EveryInRangeRowAdded ==
    ProfileBuilt =>
        LET adding == InRange(last.interactions, resource_features)
        IN  last.result.rows =
                [i \in DOMAIN adding |->
                    [row |-> adding[i].resource_id,
                     recency_weight |-> RecencyWeight(adding[i].days_old),
                     type_weight |-> TypeWeight(adding[i].interaction_type)]]

\* C26: the row an interaction adds is the row of the resource whose id is
\* the interaction's resource id.
C26_RowOfInteractedResource ==
    ProfileBuilt =>
        \A k \in DOMAIN last.result.rows :
            resource_features.snapshot[last.result.rows[k].row + 1].id
                = last.result.rows[k].row

----------------------------------------------------------------------------
(* The store after single-resource requests and after several additions *)

\* the attributes of the store are exactly what rebuild_index(c) leaves
\* them: nothing in the store tells that a request came after the rebuild
AsRebuilt(c) ==
    /\ index = IndexAdd(InitializeIndex(index_type), ResourceVectors(c)).index
    /\ vectors = [is_none |-> FALSE, rows |-> ResourceVectors(c)]
    /\ metadata = c
    /\ id_mapping = MapIds(<<>>, c)

\* C27: after update_resource or delete_resource the store holds a mark
\* that a full rebuild is required; the mark is cleared by rebuild_index
\* only, so the store is not in the state the last rebuild_index left.
C27_RebuildMarkIsRecorded ==
    (/\ last.op \in {"update_resource", "delete_resource"}
     /\ last.prev[1] = "rebuild_index") =>
        ~AsRebuilt(last.prev[2])

\* C29: every slot of the index holds the vector of the metadata record of
\* the same position, and id_mapping gives that record's id for the slot.
C29_SlotsMatchMetadata ==
    \A i \in 1..NTotal(index) :
        /\ i <= Len(metadata)
        /\ index.vecs[i] = CreateResourceVector(metadata[i])
        /\ i <= Len(id_mapping)
        /\ id_mapping[i] = metadata[i].id

====
